---------------------------- MODULE Spec2Model ----------------------------
(***************************************************************************)
(* Tagged-value encodings of scm_repr.                                     *)
(*   Variant A  benches/faster_integers.rs  1 tag bit, pairs and the empty *)
(*              list behind a generic heap object                          *)
(*   Variant B  src/main.rs (= benches/cheaper_pairs.rs)  2 tag bits,      *)
(*              dedicated pair tag, immediate empty list                   *)
(*   Variant C  benches/simple.rs  every value boxed                       *)
(* The three programs are run side by side on the same sequence of         *)
(* constructor calls.                                                      *)
(*                                                                         *)
(* A machine word (usize, and i64 in two's complement) is the set of the   *)
(* positions of its 1 bits, so that all 64 bits are kept.                  *)
(***************************************************************************)
EXTENDS Integers, Sequences, FiniteSets

VARIABLES heapA, heapB, heapC, vals, pad

vars == <<heapA, heapB, heapC, vals, pad>>

-----------------------------------------------------------------------------
(* Bounds of the model *)

\* number of Values the harness constructs
MaxVals == 3
\* longest list make_list builds
MaxLen == MaxVals - 1

-----------------------------------------------------------------------------
(* Machine words *)

WordBits == 64

Bits == 0 .. (WordBits - 1)

\* the word of a small natural number (a literal, an address)
Word(n) == {b \in 0 .. 30 : (n \div 2^b) % 2 = 1}

RECURSIVE ToNat(_)
\* the number of a word below 2^31
ToNat(w) ==
    IF w = {} THEN 0
    ELSE LET b == CHOOSE x \in w : TRUE IN 2^b + ToNat(w \ {b})

\* the i64 of a small integer, in two's complement
I64(n) == IF n >= 0 THEN Word(n) ELSE Bits \ Word(-n - 1)

BitAnd(a, b) == a \cap b

BitOr(a, b) == a \cup b

\* usize << n : the bits shifted out at the top are lost
Shl(a, n) == {b + n : b \in a} \cap Bits

\* usize >> n : a logical shift, zeros come in at the top
Shr(a, n) == {b - n : b \in {x \in a : x >= n}}

RECURSIVE AddFrom(_, _, _, _)
\* a + b from bit i up with a carry in; with no carry and no bit of b left,
\* the rest of the sum is the rest of a
AddFrom(a, b, i, carry) ==
    IF i = WordBits THEN {}
    ELSE IF carry = 0 /\ \A x \in b : x < i THEN {x \in a : x >= i}
    ELSE LET s == (IF i \in a THEN 1 ELSE 0) + (IF i \in b THEN 1 ELSE 0) + carry
         IN  (IF s % 2 = 1 THEN {i} ELSE {}) \cup AddFrom(a, b, i + 1, s \div 2)

RECURSIVE SubFrom(_, _, _, _)
\* a - b from bit i up with a borrow in
SubFrom(a, b, i, borrow) ==
    IF i = WordBits THEN {}
    ELSE IF borrow = 0 /\ \A x \in b : x < i THEN {x \in a : x >= i}
    ELSE LET d == (IF i \in a THEN 1 ELSE 0) - (IF i \in b THEN 1 ELSE 0) - borrow
         IN  (IF d % 2 = 1 THEN {i} ELSE {})
                 \cup SubFrom(a, b, i + 1, IF d < 0 THEN 1 ELSE 0)

\* wrapping addition and subtraction of words
Add(a, b) == AddFrom(a, b, 0, 0)

Sub(a, b) == SubFrom(a, b, 0, 0)

\* Option<T>
None == <<>>

Some(x) == <<x>>

IsSome(o) == o # None

-----------------------------------------------------------------------------
(* The allocator behind Box::new: a fresh block of `size` bytes, aligned to *)
(* `align`, above every block handed out so far (nothing is ever freed).   *)

\* size_of and align_of of the boxed types on a 64-bit target
PAIR_SIZE == 16
SCMVALUE_SIZE == 24
WORD_ALIGN == 8

Max(S) == CHOOSE x \in S : \A y \in S : y <= x

RoundUp(n, align) == ((n + align - 1) \div align) * align

HeapTop(heap, size, align) ==
    IF DOMAIN heap = {} THEN align
    ELSE Max({ToNat(a) + size : a \in DOMAIN heap})

\* Box_new with a block that is only 2-aligned (a packed layout)
Box_new_unaligned(heap, size, align, gap) ==
    Word(RoundUp(HeapTop(heap, size, align) + gap, align) + 2)

\* Box_new handing out a block that is still in use
Box_new_reuse(heap, size, align, gap) == Word(RoundUp(align + gap, align))

Box_new(heap, size, align, gap) == Word(RoundUp(HeapTop(heap, size, align) + gap, align))

\* what a read of memory that holds no record yields: no valid word
Poison == {-1}

\* the content of a heap record: its discriminant (for (Scm, Scm), which has
\* none, the type of the record), its two slots and its integer payload
Rec(tag, car, cdr, int) == [tag |-> tag, car |-> car, cdr |-> cdr, int |-> int]

Wild == Rec("Wild", Poison, Poison, Poison)

\* the write of a freshly boxed value to its address
Store(heap, addr, value) ==
    [x \in DOMAIN heap \cup {addr} |-> IF x = addr THEN value ELSE heap[x]]

\* &*(i as *const T): the record at address i; reading an address that holds
\* no record is a wild read
int_to_ref(heap, i) == IF i \in DOMAIN heap THEN heap[i] ELSE Wild

\* r as *const T as usize: a reference is its address
ref_to_addr(r) == r

-----------------------------------------------------------------------------
(* Variant B: src/main.rs *)

N_TAG_BITS == 2
TAG_MASK == Word(3)
TAG_POINTER == Word(0)
TAG_INTEGER == Word(1)
TAG_PAIR == Word(2)
TAG_SPECIAL == Word(3)
SPECIAL_NIL == Word(3)
MASK_IMMEDIATE == Word(1)

\* Scm::new: a boxed ScmValue (a Vector), referenced by its bare address
B_new(heap, value, gap) ==
    LET addr == ref_to_addr(Box_new(heap, SCMVALUE_SIZE, WORD_ALIGN, gap))
    IN  [heap |-> Store(heap, addr, value), scm |-> addr]

\* nil as the null pointer instead of the sentinel
B_nil_null == TAG_POINTER

B_nil == SPECIAL_NIL

\* from_int shifting by one bit too few
B_from_int_shift1(value) == BitOr(Shl(value, N_TAG_BITS - 1), TAG_INTEGER)

B_from_int(value) == BitOr(Shl(value, N_TAG_BITS), TAG_INTEGER)

B_is_immediate(v) == BitAnd(v, MASK_IMMEDIATE) # Word(0)

B_is_nil(v) == v = SPECIAL_NIL

B_as_integer(v) ==
    IF BitAnd(v, TAG_MASK) = TAG_INTEGER THEN Some(Shr(v, N_TAG_BITS)) ELSE None

\* Option<&ScmValue>: the reference is the address
B_as_ref(v) ==
    IF BitAnd(v, TAG_MASK) = TAG_POINTER THEN Some(v) ELSE None

\* as_pair without the tag test
B_as_pair_unchecked(v) == Some(Sub(v, TAG_PAIR))

\* Option<&(Scm, Scm)>: the reference is the address
B_as_pair(v) ==
    IF BitAnd(v, TAG_MASK) = TAG_PAIR THEN Some(Sub(v, TAG_PAIR)) ELSE None

\* cons storing head and tail in each other's slot
B_cons_swapped(heap, car, cdr, gap) ==
    LET addr == ref_to_addr(Box_new(heap, PAIR_SIZE, WORD_ALIGN, gap))
    IN  [heap |-> Store(heap, addr, Rec("Pair", cdr, car, {})),
         scm  |-> Add(addr, TAG_PAIR)]

\* debug_assert!(addr & TAG_MASK == 0) is property C6 of every address in
\* the heap; the word is built as a release build builds it
B_cons(heap, car, cdr, gap) ==
    LET addr == ref_to_addr(Box_new(heap, PAIR_SIZE, WORD_ALIGN, gap))
    IN  [heap |-> Store(heap, addr, Rec("Pair", car, cdr, {})),
         scm  |-> Add(addr, TAG_PAIR)]

B_car(heap, scm) ==
    LET p == B_as_pair(scm)
    IN  IF IsSome(p) THEN Some(int_to_ref(heap, p[1]).car) ELSE None

B_cdr(heap, scm) ==
    LET p == B_as_pair(scm)
    IN  IF IsSome(p) THEN Some(int_to_ref(heap, p[1]).cdr) ELSE None

B_is_pair(scm) == IsSome(B_as_pair(scm))

B_is_integer(scm) == IsSome(B_as_integer(scm))

B_is_null(scm) == B_is_nil(scm)

\* the addresses car and cdr read
B_reads(scm) == IF IsSome(B_as_pair(scm)) THEN {B_as_pair(scm)[1]} ELSE {}

-----------------------------------------------------------------------------
(* Variant A: benches/faster_integers.rs *)

A_N_TAG_BITS == 1
A_TAG_MASK == Word(1)
A_TAG_POINTER == Word(0)
A_TAG_INTEGER == Word(1)

A_new(heap, value, gap) ==
    LET addr == ref_to_addr(Box_new(heap, SCMVALUE_SIZE, WORD_ALIGN, gap))
    IN  [heap |-> Store(heap, addr, value), scm |-> addr]

A_from_int(value) == BitOr(Shl(value, A_N_TAG_BITS), A_TAG_INTEGER)

A_is_immediate(v) == BitAnd(v, A_TAG_MASK) # A_TAG_POINTER

A_as_integer(v) ==
    IF BitAnd(v, A_TAG_MASK) = A_TAG_INTEGER THEN Some(Shr(v, A_N_TAG_BITS)) ELSE None

A_as_ref(v) ==
    IF BitAnd(v, A_TAG_MASK) = A_TAG_POINTER THEN Some(v) ELSE None

\* match self.as_ref() { Some(ScmValue::Pair(pair)) => Some(pair), _ => None }
A_as_pair(heap, v) ==
    LET r == A_as_ref(v)
    IN  IF IsSome(r) /\ int_to_ref(heap, r[1]).tag = "Pair" THEN Some(r[1]) ELSE None

A_cons(heap, car, cdr, gap) == A_new(heap, Rec("Pair", car, cdr, {}), gap)

A_car(heap, scm) ==
    LET p == A_as_pair(heap, scm)
    IN  IF IsSome(p) THEN Some(int_to_ref(heap, p[1]).car) ELSE None

A_cdr(heap, scm) ==
    LET p == A_as_pair(heap, scm)
    IN  IF IsSome(p) THEN Some(int_to_ref(heap, p[1]).cdr) ELSE None

A_is_pair(heap, scm) == IsSome(A_as_pair(heap, scm))

A_is_integer(scm) == IsSome(A_as_integer(scm))

A_is_null(heap, scm) ==
    LET r == A_as_ref(scm)
    IN  IsSome(r) /\ int_to_ref(heap, r[1]).tag = "Nil"

\* the addresses as_pair, car, cdr and is_null read
A_reads(scm) == IF IsSome(A_as_ref(scm)) THEN {A_as_ref(scm)[1]} ELSE {}

-----------------------------------------------------------------------------
(* Variant C: benches/simple.rs.  Scm = &'static ScmValue, an address. *)

C_make_scm(heap, value, gap) ==
    LET addr == ref_to_addr(Box_new(heap, SCMVALUE_SIZE, WORD_ALIGN, gap))
    IN  [heap |-> Store(heap, addr, value), scm |-> addr]

C_make_int(heap, i, gap) == C_make_scm(heap, Rec("Integer", {}, {}, i), gap)

C_cons(heap, car, cdr, gap) == C_make_scm(heap, Rec("Pair", car, cdr, {}), gap)

C_car(heap, scm) ==
    IF int_to_ref(heap, scm).tag = "Pair" THEN Some(int_to_ref(heap, scm).car) ELSE None

C_cdr(heap, scm) ==
    IF int_to_ref(heap, scm).tag = "Pair" THEN Some(int_to_ref(heap, scm).cdr) ELSE None

C_is_pair(heap, scm) == int_to_ref(heap, scm).tag = "Pair"

C_as_integer(heap, scm) ==
    IF int_to_ref(heap, scm).tag = "Integer" THEN Some(int_to_ref(heap, scm).int) ELSE None

C_is_integer(heap, scm) == int_to_ref(heap, scm).tag = "Integer"

C_is_null(heap, scm) == int_to_ref(heap, scm).tag = "Nil"

-----------------------------------------------------------------------------
(* The harness: make_list and reverse, in each variant *)

\* what a call returns: the heap after it and its result; panic when an
\* expect("pair") met None
Ret(heap, scm) == [heap |-> heap, scm |-> scm, panic |-> FALSE]

Panic(heap) == [heap |-> heap, scm |-> Poison, panic |-> TRUE]

RECURSIVE B_make_list_loop(_, _, _, _)
\* for i in (0..len).rev(): n iterations are left, the next one has i = n - 1
B_make_list_loop(heap, list, n, gap) ==
    IF n = 0 THEN Ret(heap, list)
    ELSE LET c == B_cons(heap, B_from_int(I64(n - 1)), list, gap)
         IN  B_make_list_loop(c.heap, c.scm, n - 1, gap)

B_make_list(heap, len, gap) == B_make_list_loop(heap, B_nil, len, gap)

RECURSIVE B_reverse(_, _, _)
B_reverse(heap, list, gap) ==
    IF B_is_null(list) THEN Ret(heap, B_nil)
    ELSE IF ~IsSome(B_cdr(heap, list)) THEN Panic(heap)
    ELSE LET r == B_reverse(heap, B_cdr(heap, list)[1], gap)
         IN  IF r.panic THEN r
             ELSE IF ~IsSome(B_car(r.heap, list)) THEN Panic(r.heap)
             ELSE LET c == B_cons(r.heap, r.scm, B_car(r.heap, list)[1], gap)
                  IN  Ret(c.heap, c.scm)

RECURSIVE A_make_list_loop(_, _, _, _)
A_make_list_loop(heap, list, n, gap) ==
    IF n = 0 THEN Ret(heap, list)
    ELSE LET c == A_cons(heap, A_from_int(I64(n - 1)), list, gap)
         IN  A_make_list_loop(c.heap, c.scm, n - 1, gap)

A_make_list(heap, len, gap) ==
    LET nil == A_new(heap, Rec("Nil", {}, {}, {}), gap)
    IN  A_make_list_loop(nil.heap, nil.scm, len, gap)

RECURSIVE A_reverse(_, _, _)
A_reverse(heap, list, gap) ==
    IF A_is_null(heap, list)
    THEN LET nil == A_new(heap, Rec("Nil", {}, {}, {}), gap) IN Ret(nil.heap, nil.scm)
    ELSE IF ~IsSome(A_cdr(heap, list)) THEN Panic(heap)
    ELSE LET r == A_reverse(heap, A_cdr(heap, list)[1], gap)
         IN  IF r.panic THEN r
             ELSE IF ~IsSome(A_car(r.heap, list)) THEN Panic(r.heap)
             ELSE LET c == A_cons(r.heap, r.scm, A_car(r.heap, list)[1], gap)
                  IN  Ret(c.heap, c.scm)

RECURSIVE C_make_list_loop(_, _, _, _)
C_make_list_loop(heap, list, n, gap) ==
    IF n = 0 THEN Ret(heap, list)
    ELSE LET i == C_make_int(heap, I64(n - 1), gap)
             c == C_cons(i.heap, i.scm, list, gap)
         IN  C_make_list_loop(c.heap, c.scm, n - 1, gap)

C_make_list(heap, len, gap) ==
    LET nil == C_make_scm(heap, Rec("Nil", {}, {}, {}), gap)
    IN  C_make_list_loop(nil.heap, nil.scm, len, gap)

RECURSIVE C_reverse(_, _, _)
C_reverse(heap, list, gap) ==
    IF C_is_null(heap, list)
    THEN LET nil == C_make_scm(heap, Rec("Nil", {}, {}, {}), gap) IN Ret(nil.heap, nil.scm)
    ELSE IF ~IsSome(C_cdr(heap, list)) THEN Panic(heap)
    ELSE LET r == C_reverse(heap, C_cdr(heap, list)[1], gap)
         IN  IF r.panic THEN r
             ELSE IF ~IsSome(C_car(r.heap, list)) THEN Panic(r.heap)
             ELSE LET c == C_cons(r.heap, r.scm, C_car(r.heap, list)[1], gap)
                  IN  Ret(c.heap, c.scm)

-----------------------------------------------------------------------------
(* What the six inspection operations return for a Value *)

Obs(isint, ispair, isnull, asint, car, cdr) ==
    [is_integer |-> isint, is_pair |-> ispair, is_null |-> isnull,
     as_integer |-> asint, car |-> car, cdr |-> cdr]

A_observe(heap, v) ==
    Obs(A_is_integer(v), A_is_pair(heap, v), A_is_null(heap, v),
        A_as_integer(v), A_car(heap, v), A_cdr(heap, v))

B_observe(heap, v) ==
    Obs(B_is_integer(v), B_is_pair(v), B_is_null(v),
        B_as_integer(v), B_car(heap, v), B_cdr(heap, v))

C_observe(heap, v) ==
    Obs(C_is_integer(heap, v), C_is_pair(heap, v), C_is_null(heap, v),
        C_as_integer(heap, v), C_car(heap, v), C_cdr(heap, v))

-----------------------------------------------------------------------------
(* The state machine *)

\* the i64 arguments tried: 0, 1, -1, the largest and the smallest integer of
\* 62 bits signed (2^61 - 1, -2^61), 2^61 (one past that range) and i64::MIN
IntInputs == {I64(0), I64(1), I64(-1), 0 .. 60, 61 .. 63, {61}, {63}}

\* the bytes the process's allocator leaves between two blocks (its size
\* classes, its headers): none, or one alignment unit
Gaps == {0, WORD_ALIGN}

EmptyHeap == [x \in {} |-> Wild]

\* a constructed Value: the call that made it (x, y index earlier Values)
\* and its word in each variant
Val(op, int, x, y, a, b, c) ==
    [op |-> op, int |-> int, x |-> x, y |-> y, a |-> a, b |-> b, c |-> c]

Init ==
    /\ heapA = EmptyHeap
    /\ heapB = EmptyHeap
    /\ heapC = EmptyHeap
    /\ vals = <<>>
    /\ pad \in Gaps

\* Scm::from_int(i) / make_int(i)
FromInt(i) ==
    /\ Len(vals) < MaxVals
    /\ LET c == C_make_int(heapC, i, pad)
       IN  /\ heapC' = c.heap
           /\ vals' = Append(vals, Val("from_int", i, 0, 0,
                                       A_from_int(i), B_from_int(i), c.scm))
    /\ UNCHANGED <<heapA, heapB, pad>>

\* Scm::nil() / Scm::new(ScmValue::Nil) / make_scm(ScmValue::Nil)
Nil ==
    /\ Len(vals) < MaxVals
    /\ LET a == A_new(heapA, Rec("Nil", {}, {}, {}), pad)
           c == C_make_scm(heapC, Rec("Nil", {}, {}, {}), pad)
       IN  /\ heapA' = a.heap
           /\ heapC' = c.heap
           /\ vals' = Append(vals, Val("nil", {}, 0, 0, a.scm, B_nil, c.scm))
    /\ UNCHANGED <<heapB, pad>>

\* cons(vals[x], vals[y])
Cons(x, y) ==
    /\ Len(vals) < MaxVals
    /\ LET a == A_cons(heapA, vals[x].a, vals[y].a, pad)
           b == B_cons(heapB, vals[x].b, vals[y].b, pad)
           c == C_cons(heapC, vals[x].c, vals[y].c, pad)
       IN  /\ heapA' = a.heap
           /\ heapB' = b.heap
           /\ heapC' = c.heap
           /\ vals' = Append(vals, Val("cons", {}, x, y, a.scm, b.scm, c.scm))
    /\ UNCHANGED pad

\* make_list(len)
MakeList(len) ==
    /\ Len(vals) < MaxVals
    /\ LET a == A_make_list(heapA, len, pad)
           b == B_make_list(heapB, len, pad)
           c == C_make_list(heapC, len, pad)
       IN  /\ heapA' = a.heap
           /\ heapB' = b.heap
           /\ heapC' = c.heap
           /\ vals' = Append(vals, Val("make_list", {}, len, 0, a.scm, b.scm, c.scm))
    /\ UNCHANGED pad

\* reverse(vals[x]); a call in which expect("pair") panics ends the process
Reverse(x) ==
    /\ Len(vals) < MaxVals
    /\ LET a == A_reverse(heapA, vals[x].a, pad)
           b == B_reverse(heapB, vals[x].b, pad)
           c == C_reverse(heapC, vals[x].c, pad)
       IN  /\ ~a.panic /\ ~b.panic /\ ~c.panic
           /\ heapA' = a.heap
           /\ heapB' = b.heap
           /\ heapC' = c.heap
           /\ vals' = Append(vals, Val("reverse", {}, x, 0, a.scm, b.scm, c.scm))
    /\ UNCHANGED pad

Next ==
    \/ \E i \in IntInputs : FromInt(i)
    \/ Nil
    \/ \E x, y \in 1 .. Len(vals) : Cons(x, y)
    \/ \E len \in 0 .. MaxLen : MakeList(len)
    \/ \E x \in 1 .. Len(vals) : Reverse(x)

Spec == Init /\ [][Next]_vars

-----------------------------------------------------------------------------
(* Vocabulary of the properties *)

Idx == 1 .. Len(vals)

\* i fits in (64 - n) bits signed: its top n + 1 bits are all equal
FitsSigned(i, n) ==
    LET top == (WordBits - 1 - n) .. (WordBits - 1)
    IN  top \subseteq i \/ top \cap i = {}

\* a sign-preserving (arithmetic) right shift of a word
Sar(w, n) ==
    Shr(w, n) \cup (IF (WordBits - 1) \in w THEN (WordBits - n) .. (WordBits - 1) ELSE {})

\* i with its high n bits dropped and the rest sign-extended
Truncated(i, n) == Sar(Shl(i, n), n)

RECURSIVE Kind(_)
\* what the k-th Value was constructed as: "int", "nil" or "pair"
Kind(k) ==
    CASE vals[k].op = "from_int" -> "int"
      [] vals[k].op = "nil" -> "nil"
      [] vals[k].op = "cons" -> "pair"
      [] vals[k].op = "make_list" -> IF vals[k].x = 0 THEN "nil" ELSE "pair"
      [] vals[k].op = "reverse" -> IF Kind(vals[k].x) = "nil" THEN "nil" ELSE "pair"

ExactlyOne(p, q, r) == (p /\ ~q /\ ~r) \/ (~p /\ q /\ ~r) \/ (~p /\ ~q /\ r)

RECURSIVE B_nthcdr(_, _, _)
\* cdr followed j times
B_nthcdr(heap, v, j) ==
    IF j = 0 THEN Some(v)
    ELSE LET d == B_cdr(heap, v)
         IN  IF IsSome(d) THEN B_nthcdr(heap, d[1], j - 1) ELSE None

RECURSIVE C_nthcdr(_, _, _)
C_nthcdr(heap, v, j) ==
    IF j = 0 THEN Some(v)
    ELSE LET d == C_cdr(heap, v)
         IN  IF IsSome(d) THEN C_nthcdr(heap, d[1], j - 1) ELSE None

\* the j-th element of a list: car after j cdr steps
B_nth(heap, v, j) ==
    IF IsSome(B_nthcdr(heap, v, j)) THEN B_car(heap, B_nthcdr(heap, v, j)[1]) ELSE None

C_nth(heap, v, j) ==
    IF IsSome(C_nthcdr(heap, v, j)) THEN C_car(heap, C_nthcdr(heap, v, j)[1]) ELSE None

\* the integer a Variant C element holds
C_int(heap, o) == IF IsSome(o) THEN C_as_integer(heap, o[1]) ELSE None

-----------------------------------------------------------------------------
(* Integer encoding *)

\* C1 -- integer round-trip: for every i that fits in (64 - N) bits signed,
\* negative values included, as_integer(from_int(i)) = Some(i)
\* (N = 2 in Variant B, N = 1 in Variant A).
C1_IntegerRoundTrip ==
    \A k \in Idx :
        vals[k].op = "from_int" =>
            /\ FitsSigned(vals[k].int, N_TAG_BITS) =>
                   B_as_integer(vals[k].b) = Some(vals[k].int)
            /\ FitsSigned(vals[k].int, A_N_TAG_BITS) =>
                   A_as_integer(vals[k].a) = Some(vals[k].int)

\* C9 -- out-of-range integers are truncated, not rejected: from_int(i) is
\* integer-tagged for every i64 i, and as_integer(from_int(i)) = Some(j) with
\* j = i with its high N bits dropped and the rest sign-extended.
C9_TruncationSignExtends ==
    \A k \in Idx :
        vals[k].op = "from_int" =>
            /\ B_is_integer(vals[k].b)
            /\ B_as_integer(vals[k].b) = Some(Truncated(vals[k].int, N_TAG_BITS))

-----------------------------------------------------------------------------
(* Pairs *)

\* C2 -- pair round-trip: p = cons(a, b) has car(p) = Some(a) and
\* cdr(p) = Some(b), and as_pair(p) is the address p.value - TAG_PAIR of the
\* record cons allocated (Variants B and A).
C2_PairRoundTrip ==
    \A k \in Idx :
        vals[k].op = "cons" =>
            LET a == vals[vals[k].x]
                b == vals[vals[k].y]
                p == vals[k]
            IN  /\ B_car(heapB, p.b) = Some(a.b)
                /\ B_cdr(heapB, p.b) = Some(b.b)
                /\ B_as_pair(p.b) = Some(Sub(p.b, TAG_PAIR))
                /\ Sub(p.b, TAG_PAIR) \in DOMAIN heapB
                /\ heapB[Sub(p.b, TAG_PAIR)] = Rec("Pair", a.b, b.b, {})
                /\ A_car(heapA, p.a) = Some(a.a)
                /\ A_cdr(heapA, p.a) = Some(b.a)

\* a pair whose head and tail differ has been constructed and read back
C2_Witness ==
    \E k \in Idx :
        /\ vals[k].op = "cons"
        /\ vals[vals[k].x].b # vals[vals[k].y].b
        /\ B_car(heapB, vals[k].b) = Some(vals[vals[k].x].b)
        /\ B_cdr(heapB, vals[k].b) = Some(vals[vals[k].y].b)

-----------------------------------------------------------------------------
(* Tags *)

\* C3 -- tag disjointness: every constructed Value satisfies exactly one of
\* is_integer, is_pair, is_null: from_int(i) is integer only (for any i64,
\* so is_null(from_int(0)) is false), nil() is null only, cons(_, _) is pair
\* only (Variants B and A).
C3_TagDisjointness ==
    \A k \in Idx :
        LET v == vals[k]
        IN  /\ ExactlyOne(B_is_integer(v.b), B_is_pair(v.b), B_is_null(v.b))
            /\ B_is_integer(v.b) <=> Kind(k) = "int"
            /\ B_is_pair(v.b) <=> Kind(k) = "pair"
            /\ B_is_null(v.b) <=> Kind(k) = "nil"
            /\ ExactlyOne(A_is_integer(v.a), A_is_pair(heapA, v.a), A_is_null(heapA, v.a))
            /\ A_is_integer(v.a) <=> Kind(k) = "int"
            /\ A_is_pair(heapA, v.a) <=> Kind(k) = "pair"
            /\ A_is_null(heapA, v.a) <=> Kind(k) = "nil"

\* from_int(0), the empty list and a pair have all been constructed
C3_Witness ==
    /\ \E k \in Idx : vals[k].op = "from_int" /\ vals[k].int = I64(0)
                      /\ ~B_is_null(vals[k].b)
    /\ \E k \in Idx : vals[k].op = "nil" /\ B_is_null(vals[k].b)
    /\ \E k \in Idx : vals[k].op = "cons" /\ B_is_pair(vals[k].b)

\* C4 -- type mismatch is a value: as_integer is None on a Value that is no
\* integer, car and cdr are None on a Value that is no pair, and no
\* inspection reads the word of an immediate Value as an address; what is
\* read is always a record of the heap (Variants B and A).
C4_TypeMismatchIsNone ==
    \A k \in Idx :
        LET v == vals[k]
        IN  /\ Kind(k) # "int" =>
                   B_as_integer(v.b) = None /\ A_as_integer(v.a) = None
            /\ Kind(k) # "pair" =>
                   /\ B_car(heapB, v.b) = None /\ B_cdr(heapB, v.b) = None
                   /\ A_car(heapA, v.a) = None /\ A_cdr(heapA, v.a) = None
            /\ Kind(k) \in {"int", "nil"} => B_reads(v.b) = {}
            /\ Kind(k) = "int" => A_reads(v.a) = {}
            /\ B_reads(v.b) \subseteq DOMAIN heapB
            /\ A_reads(v.a) \subseteq DOMAIN heapA

\* an integer, an empty list and a pair have been inspected with the
\* operations that do not match them
C4_Witness ==
    /\ \E k \in Idx : Kind(k) = "int" /\ B_car(heapB, vals[k].b) = None
                      /\ A_cdr(heapA, vals[k].a) = None
    /\ \E k \in Idx : Kind(k) = "nil" /\ B_as_integer(vals[k].b) = None
                      /\ B_car(heapB, vals[k].b) = None
    /\ \E k \in Idx : Kind(k) = "pair" /\ B_as_integer(vals[k].b) = None

-----------------------------------------------------------------------------
(* List reversal *)

\* C5 -- reverse of a list l of n integers built by make_list is a proper
\* list of length n (n cdr steps reach the empty list) whose k-th element is
\* the (n - 1 - k)-th element of l (Variants B and C).
C5_ReverseIsReversedList ==
    \A k \in Idx :
        (vals[k].op = "reverse" /\ vals[vals[k].x].op = "make_list") =>
            LET l == vals[vals[k].x]
                n == l.x
                r == vals[k]
            IN  /\ IsSome(B_nthcdr(heapB, r.b, n))
                /\ B_is_null(B_nthcdr(heapB, r.b, n)[1])
                /\ \A j \in 0 .. (n - 1) :
                       /\ IsSome(B_nth(heapB, r.b, j))
                       /\ B_nth(heapB, r.b, j) = B_nth(heapB, l.b, n - 1 - j)
                /\ IsSome(C_nthcdr(heapC, r.c, n))
                /\ C_is_null(heapC, C_nthcdr(heapC, r.c, n)[1])
                /\ \A j \in 0 .. (n - 1) :
                       /\ IsSome(C_int(heapC, C_nth(heapC, r.c, j)))
                       /\ C_int(heapC, C_nth(heapC, r.c, j))
                              = C_int(heapC, C_nth(heapC, l.c, n - 1 - j))

-----------------------------------------------------------------------------
(* The heap *)

\* C6 -- alignment: the address of every heap record made by cons or
\* Scm::new is a multiple of 2^N before the tag is added (4 in Variant B,
\* 2 in Variant A), so the assertion addr & TAG_MASK == 0 of cons holds and
\* adding TAG_PAIR changes only the low N bits of the word.
C6_Alignment ==
    /\ \A addr \in DOMAIN heapB : BitAnd(addr, TAG_MASK) = Word(0)
    /\ \A addr \in DOMAIN heapA : BitAnd(addr, A_TAG_MASK) = Word(0)
    /\ BitAnd(B_new(heapB, Rec("Vector", {}, {}, {}), pad).scm, TAG_MASK) = Word(0)
    /\ \A addr \in DOMAIN heapB :
           /\ BitAnd(Add(addr, TAG_PAIR), TAG_MASK) = TAG_PAIR
           /\ Add(addr, TAG_PAIR) \ TAG_MASK = addr \ TAG_MASK
    /\ \A k \in Idx :
           Kind(k) = "pair" =>
               /\ vals[k].b \ TAG_MASK \in DOMAIN heapB
               /\ vals[k].a \in DOMAIN heapA

\* records have been allocated in both tagged variants, two of them pairs
\* of Variant B
C6_Witness ==
    /\ Cardinality(DOMAIN heapB) >= 2
    /\ Cardinality(DOMAIN heapA) >= 2
    /\ \E k \in Idx : vals[k].op = "cons"

\* C7 -- immutability and frame: no operation changes an existing heap
\* record or an existing Value, so every inspection of a Value constructed
\* earlier returns after the operation what it returned before it.
C7_Immutability ==
    [][ /\ \A addr \in DOMAIN heapB :
               addr \in DOMAIN heapB' /\ heapB'[addr] = heapB[addr]
        /\ \A addr \in DOMAIN heapA :
               addr \in DOMAIN heapA' /\ heapA'[addr] = heapA[addr]
        /\ \A addr \in DOMAIN heapC :
               addr \in DOMAIN heapC' /\ heapC'[addr] = heapC[addr]
        /\ \A k \in Idx :
               /\ vals'[k] = vals[k]
               /\ B_observe(heapB', vals[k].b) = B_observe(heapB, vals[k].b)
               /\ A_observe(heapA', vals[k].a) = A_observe(heapA, vals[k].a)
               /\ C_observe(heapC', vals[k].c) = C_observe(heapC, vals[k].c)
      ]_vars

\* a pair constructed first still reads back its head and tail after two
\* more records were allocated
C7_Witness ==
    /\ Len(vals) = 3
    /\ vals[2].op = "cons"
    /\ vals[3].op \in {"cons", "make_list", "reverse"}
    /\ Cardinality(DOMAIN heapB) >= 2
    /\ B_car(heapB, vals[2].b) = Some(vals[vals[2].x].b)

-----------------------------------------------------------------------------
(* The empty list *)

\* C8 -- the empty list is an immediate sentinel in Variants B and A:
\* constructing it allocates no heap record and yields one fixed word, so
\* any two empty lists are bit-identical and is_null compares with that word.
C8_NilIsImmediateSentinel ==
    \A j, k \in Idx :
        (Kind(j) = "nil" /\ Kind(k) = "nil") =>
            /\ vals[k].b = SPECIAL_NIL
            /\ vals[j].b = vals[k].b
            /\ B_is_immediate(vals[k].b)
            /\ B_reads(vals[k].b) = {}
            /\ vals[j].a = vals[k].a
            /\ A_is_immediate(vals[k].a)
            /\ A_reads(vals[k].a) = {}

\* C8 as amended -- in Variant B the empty list is the immediate sentinel
\* SPECIAL_NIL: constructing it allocates nothing, every empty list is that
\* one word and is_null holds of that word alone.  In Variant A every empty
\* list is a heap record of its own, allocated by Scm::new(ScmValue::Nil):
\* two empty lists are different words and is_null reads the record.
C8_NilSentinelInVariantB ==
    /\ \A k \in Idx : B_is_null(vals[k].b) <=> Kind(k) = "nil"
    /\ \A j, k \in Idx :
           (Kind(j) = "nil" /\ Kind(k) = "nil") =>
               /\ vals[k].b = SPECIAL_NIL
               /\ B_is_immediate(vals[k].b)
               /\ B_reads(vals[k].b) = {}
               /\ ~A_is_immediate(vals[k].a)
               /\ A_reads(vals[k].a) = {vals[k].a}
               /\ vals[k].a \in DOMAIN heapA
               /\ heapA[vals[k].a].tag = "Nil"
               /\ A_is_null(heapA, vals[k].a)
               /\ j # k => vals[j].a # vals[k].a
    /\ (\A k \in Idx : vals[k].op \in {"from_int", "nil"}) => heapB = EmptyHeap

\* two empty lists have been constructed
C8_Witness ==
    \E j, k \in Idx :
        /\ j # k
        /\ vals[j].op = "nil"
        /\ vals[k].op = "nil"
        /\ vals[j].b = vals[k].b
        /\ vals[j].a # vals[k].a

-----------------------------------------------------------------------------
(* The three variants side by side *)

RECURSIVE Equivalent(_, _, _)
\* the Values a, b, c of Variants A, B, C answer every inspection alike, and
\* so do their heads and tails
Equivalent(a, b, c) ==
    LET oa == A_observe(heapA, a)
        ob == B_observe(heapB, b)
        oc == C_observe(heapC, c)
    IN  /\ oa.is_integer = ob.is_integer /\ ob.is_integer = oc.is_integer
        /\ oa.is_pair = ob.is_pair /\ ob.is_pair = oc.is_pair
        /\ oa.is_null = ob.is_null /\ ob.is_null = oc.is_null
        /\ oa.as_integer = ob.as_integer /\ ob.as_integer = oc.as_integer
        /\ IsSome(oa.car) = IsSome(ob.car) /\ IsSome(ob.car) = IsSome(oc.car)
        /\ IsSome(oa.cdr) = IsSome(ob.cdr) /\ IsSome(ob.cdr) = IsSome(oc.cdr)
        /\ (IsSome(oa.car) /\ IsSome(ob.car) /\ IsSome(oc.car)) =>
               Equivalent(oa.car[1], ob.car[1], oc.car[1])
        /\ (IsSome(oa.cdr) /\ IsSome(ob.cdr) /\ IsSome(oc.cdr)) =>
               Equivalent(oa.cdr[1], ob.cdr[1], oc.cdr[1])

\* C10 -- the three variants are observationally equivalent: after the same
\* constructor calls with integers that fit in 62 bits signed (negative
\* values included), corresponding Values give the same is_integer, is_pair,
\* is_null and as_integer, and corresponding car and cdr, at every depth.
C10_VariantsEquivalent ==
    (\A k \in Idx : vals[k].op = "from_int" => FitsSigned(vals[k].int, N_TAG_BITS))
        => \A k \in Idx : Equivalent(vals[k].a, vals[k].b, vals[k].c)

=============================================================================
